---- MODULE Spec2Model ----
(***************************************************************************)
(* Model of arg_lab: the accumulate-release integrator (simulate_cycle),   *)
(* the drive evaluator (_driver_derivative), the cycle summarizer          *)
(* (summarize_cycles) and the viability margin (compute_viability_margin), *)
(* run in the order cli.main calls them.                                   *)
(*                                                                         *)
(* Numbers.  Floats are modelled by exact arithmetic.  States, rates,      *)
(* thetas, resets and gains are integers.  The time grid of np.linspace is *)
(* the rational i * duration / (steps - 1); a time is kept as its          *)
(* numerator over the run's common denominator TimeDiv(steps).  A float    *)
(* that may be NaN is a pair <<num, den>> with den = 0 for NaN.            *)
(* An optional field (rate: float | None) is <<>> for None and <<v>>       *)
(* for a value.                                                            *)
(***************************************************************************)
EXTENDS Integers, Sequences, FiniteSets, TLC

\* ------------------------------------------------------------------ bounds

MaxDuration == 3
MaxThresholds == 2

MaxEvents == 2
MaxSize == 2

\* ------------------------------------------------------- optional values

None == <<>>
Some(v) == <<v>>
IsNone(o) == o = <<>>
Val(o) == o[1]

NaN == <<0, 0>>
Rat(n, d) == <<n, d>>
IsNaN(q) == q[2] = 0
\* q = 0 as a float comparison (NaN == 0 is False)
RatIsZero(q) == q[2] # 0 /\ q[1] = 0

\* ------------------------------------------------------------- scenarios

ThresholdSpec(theta, reset, delta_s) ==
    [theta |-> theta, reset |-> reset, delta_s |-> delta_s]

DriverSpec(type, rate, leak, segments, noise_std) ==
    [type |-> type, rate |-> rate, leak |-> leak, segments |-> segments,
     noise_std |-> noise_std]

Segment(end, rate) == [end |-> end, rate |-> rate]

\* The threshold records scenarios are built from: a plain threshold, a higher
\* one, one sharing theta 1 with a reset above theta and a negative gain, one
\* at theta 0 with a negative reset, and one whose reset equals its theta.
ThresholdSpecs ==
    { ThresholdSpec(1, 0, 1), ThresholdSpec(2, 0, 2), ThresholdSpec(1, 2, -1),
      ThresholdSpec(0, -1, 1), ThresholdSpec(2, 2, 1) }

RECURSIVE SeqsUpTo(_, _)
SeqsUpTo(S, n) ==
    IF n = 0 THEN { <<>> }
    ELSE LET shorter == SeqsUpTo(S, n - 1)
         IN  shorter \cup { Append(s, e) : s \in { t \in shorter : Len(t) = n - 1 }, e \in S }

ThresholdSeqs == SeqsUpTo(ThresholdSpecs, MaxThresholds)

SegmentSeqs ==
    { <<>>,
      << Segment(1, 2) >>,
      << Segment(1, 2), Segment(2, -1) >>,
      << Segment(2, 1), Segment(1, 2) >> }

ValidDrivers ==
    { DriverSpec("linear", Some(r), None, None, n) : r \in {-1, 1, 2}, n \in {0, 1} }
    \cup { DriverSpec("leaky", Some(2), Some(1), None, n) : n \in {0, 1} }
    \cup { DriverSpec("piecewise", None, None, Some(s), n) :
             s \in SegmentSeqs \ { <<>> }, n \in {0, 1} }

InvalidDrivers ==
    { DriverSpec("leaky", None, Some(1), None, 0),
      DriverSpec("leaky", Some(2), None, None, 0),
      DriverSpec("linear", None, None, None, 0),
      DriverSpec("piecewise", None, None, None, 0),
      DriverSpec("piecewise", None, None, Some(<<>>), 0),
      DriverSpec("sine", Some(1), None, None, 0) }

Drivers == ValidDrivers \cup InvalidDrivers

Scenarios ==
    [ dt : {1, 2},
      duration : 0..MaxDuration,
      initial_state : {-1, 0, 1},
      driver : Drivers,
      thresholds : ThresholdSeqs ]

\* ------------------------------------------------------- random generator

\* np.random.default_rng(seed): a seeded generator starts in the state the seed
\* fixes; seed None takes the state from OS entropy, any state.
RngStates == 0..2
Seeds == {0}
rng_ignoring_seed(seed) == RngStates
default_rng(seed) == IF IsNone(seed) THEN RngStates ELSE { Val(seed) % 3 }
\* rng.normal(scale): the draw and the generator's next state
normal(r, scale) == (r - 1) * scale
advance(r) == (2 * r + 1) % 3

\* --------------------------------------------------------- time grid

steps_rounded_down(scn) == (scn.duration \div scn.dt) + 1
CeilDiv(a, b) == (a + b - 1) \div b
Steps(scn) == CeilDiv(scn.duration, scn.dt) + 1
TimeDiv(steps) == IF steps > 1 THEN steps - 1 ELSE 1
\* np.linspace(0.0, duration, steps)[i] = TimeNum / TimeDiv
TimeNum(scn, i) == i * scn.duration
linspace(scn) == [ i \in 0..(Steps(scn) - 1) |-> TimeNum(scn, i) ]
zeros(steps) == [ i \in 0..(steps - 1) |-> 0 ]

\* ------------------------------------------------------- drive evaluator

\* The outcome of a call: a returned value, or the exception raised.
Ok(v) == [ok |-> TRUE, value |-> v, kind |-> "none"]
Raise(kind) == [ok |-> FALSE, value |-> 0, kind |-> kind]

\* First segment with time <= segment["end"], scanning in the given order;
\* time is tnum / tdiv.
RECURSIVE first_segment(_, _, _, _)
first_segment(segments, k, tnum, tdiv) ==
    IF k > Len(segments) THEN 0
    ELSE IF tnum <= segments[k].end * tdiv THEN k
    ELSE first_segment(segments, k + 1, tnum, tdiv)

\* _piecewise_rate.  segments None: the assert raises AssertionError, and with
\* assertions compiled out (python -O) the for loop over None raises TypeError.
\* segments empty: the loop body never runs and segments[-1] raises IndexError.
piecewise_rate(driver, tnum, tdiv) ==
    IF IsNone(driver.segments) THEN { Raise("AssertionError"), Raise("TypeError") }
    ELSE LET segments == Val(driver.segments)
             k == first_segment(segments, 1, tnum, tdiv)
         IN  IF k # 0 THEN { Ok(segments[k].rate) }
             ELSE IF Len(segments) = 0 THEN { Raise("IndexError") }
             ELSE { Ok(segments[Len(segments)].rate) }

\* _driver_derivative: the set of outcomes the call can have.
driver_derivative(driver, tnum, tdiv, state) ==
    IF driver.type = "leaky" THEN
        IF IsNone(driver.rate) \/ IsNone(driver.leak) THEN { Raise("ValueError") }
        ELSE { Ok(Val(driver.rate) - Val(driver.leak) * state) }
    ELSE IF driver.type = "linear" THEN
        IF IsNone(driver.rate) THEN { Raise("ValueError") }
        ELSE { Ok(Val(driver.rate)) }
    ELSE IF driver.type = "piecewise" THEN piecewise_rate(driver, tnum, tdiv)
    ELSE { Raise("ValueError") }

\* ------------------------------------------------------------ integrator

\* sorted(scenario.thresholds, key=lambda th: th.theta): a stable sort, so
\* thresholds of equal theta keep their listing order.
RECURSIVE insert_sorted(_, _)
insert_sorted(sorted, th) ==
    IF sorted = <<>> THEN << th >>
    ELSE IF sorted[Len(sorted)].theta <= th.theta THEN Append(sorted, th)
    ELSE Append(insert_sorted(SubSeq(sorted, 1, Len(sorted) - 1), th), sorted[Len(sorted)])

listing_order(ths) == ths
RECURSIVE sort_by_theta(_)
sort_by_theta(ths) ==
    IF ths = <<>> THEN <<>>
    ELSE insert_sorted(sort_by_theta(SubSeq(ths, 1, Len(ths) - 1)), ths[Len(ths)])

\* crossed: the thresholds with state_next >= theta, in sorted order
crossed_thresholds(thresholds, state_next) ==
    SelectSeq(thresholds, LAMBDA th : state_next >= th.theta)

selected_lowest(crossed) == crossed[1]
\* selected = crossed[-1]
selected_threshold(crossed) == crossed[Len(crossed)]

event_before_at_theta(time, selected, state_next) ==
    [time |-> time, theta |-> selected.theta, reset |-> selected.reset,
     delta_s |-> selected.delta_s, state_before |-> selected.theta,
     state_after |-> selected.reset]
Event(time, selected, state_next) ==
    [time |-> time, theta |-> selected.theta, reset |-> selected.reset,
     delta_s |-> selected.delta_s, state_before |-> state_next,
     state_after |-> selected.reset]

events_every_crossed(crossed, time, state_next) ==
    [ k \in 1..Len(crossed) |-> Event(time, crossed[k], state_next) ]
\* The events one step appends: one for the selected threshold when any is
\* crossed, none otherwise.
step_events(crossed, time, state_next) ==
    IF crossed = <<>> THEN <<>>
    ELSE << Event(time, selected_threshold(crossed), state_next) >>

order_replaced(prev, crossed) ==
    IF crossed = <<>> THEN 0 ELSE selected_threshold(crossed).delta_s
order_decreased(prev, crossed) ==
    IF crossed = <<>> THEN prev ELSE prev - selected_threshold(crossed).delta_s
\* order[idx] from order[idx - 1]
next_order(prev, crossed) ==
    IF crossed = <<>> THEN prev ELSE prev + selected_threshold(crossed).delta_s

no_floor(state_next) == state_next
\* max(state_next, 0.0)
floor_at_zero(state_next) == IF state_next > 0 THEN state_next ELSE 0

Frame(times, x, order, driver_values, releases, tdiv) ==
    [time |-> times, accumulator |-> x, order_parameter |-> order,
     driver |-> driver_values, release |-> releases, time_div |-> tdiv]

\* simulate_cycle as one call: the loop from the locals `st` on, giving the
\* set of outcomes the call can have (what it returns, or the exception that
\* leaves it).
RECURSIVE run_loop(_, _, _)
run_loop(scn, ths, st) ==
    LET steps == Steps(scn)
        times == linspace(scn)
    IN  IF st.idx >= steps
        THEN { Ok([frame |-> Frame(times, st.x, st.order,
                                   [st.driver_values EXCEPT
                                      ![steps - 1] = IF steps > 1 THEN st.driver_values[steps - 2] ELSE 0],
                                   st.releases, TimeDiv(steps)),
                   events |-> st.events]) }
        ELSE UNION {
               IF ~out.ok THEN { Raise(out.kind) }
               ELSE LET noisy == scn.driver.noise_std > 0
                        derivative == IF noisy THEN out.value + normal(st.rng, scn.driver.noise_std)
                                      ELSE out.value
                        state_next == st.x[st.idx - 1] + derivative * scn.dt
                        crossed == crossed_thresholds(ths, state_next)
                        new_state == IF crossed = <<>> THEN state_next
                                     ELSE selected_threshold(crossed).reset
                    IN  run_loop(scn, ths,
                                 [idx |-> st.idx + 1,
                                  rng |-> IF noisy THEN advance(st.rng) ELSE st.rng,
                                  x |-> [st.x EXCEPT ![st.idx] = floor_at_zero(new_state)],
                                  order |-> [st.order EXCEPT
                                               ![st.idx] = next_order(st.order[st.idx - 1], crossed)],
                                  releases |-> [st.releases EXCEPT
                                                  ![st.idx] = IF crossed = <<>> THEN 0 ELSE 1],
                                  driver_values |-> [st.driver_values EXCEPT ![st.idx - 1] = derivative],
                                  events |-> st.events
                                             \o step_events(crossed, times[st.idx], state_next)])
               : out \in driver_derivative(scn.driver, times[st.idx - 1], TimeDiv(steps),
                                           st.x[st.idx - 1]) }

\* the locals of simulate_cycle when the loop starts, the generator in state r
run_start(scn, r) ==
    [idx |-> 1, rng |-> r,
     x |-> [ zeros(Steps(scn)) EXCEPT ![0] = scn.initial_state ],
     order |-> zeros(Steps(scn)), releases |-> zeros(Steps(scn)),
     driver_values |-> zeros(Steps(scn)), events |-> <<>>]

\* simulate_cycle(scenario, seed)
simulate_cycle(scn, seed) ==
    UNION { run_loop(scn, sort_by_theta(scn.thresholds), run_start(scn, r)) :
            r \in default_rng(seed) }

\* -------------------------------------------------------- cycle summarizer

CycleSummary(start_time, end_time, duration, amplitude, mean_slope, release_gain, theta, reset_level) ==
    [start_time |-> start_time, end_time |-> end_time, duration |-> duration,
     ramp_amplitude |-> amplitude, mean_slope |-> mean_slope,
     release_gain |-> release_gain, theta |-> theta, reset_level |-> reset_level]

amplitude_to_theta(event, last_state) == event.theta - last_state
\* amplitude = event.state_before - last_state
ramp_amplitude(event, last_state) == event.state_before - last_state

row_gain_from_running_total(event, last_time, last_state, last_order, tdiv) ==
    LET dnum == event.time - last_time
        amplitude == ramp_amplitude(event, last_state)
    IN  CycleSummary(last_time, event.time,
                     IF dnum <= 0 THEN NaN ELSE Rat(dnum, tdiv), amplitude,
                     IF dnum <= 0 THEN NaN ELSE Rat(amplitude * tdiv, dnum),
                     last_order, event.theta, event.reset)
row_duration_reversed(event, last_time, last_state, last_order, tdiv) ==
    LET dnum == last_time - event.time
        amplitude == ramp_amplitude(event, last_state)
    IN  CycleSummary(last_time, event.time,
                     IF dnum <= 0 THEN NaN ELSE Rat(dnum, tdiv), amplitude,
                     IF dnum <= 0 THEN NaN ELSE Rat(amplitude * tdiv, dnum),
                     event.delta_s, event.theta, event.reset)
\* One pass of the loop body: the row of `event`, the cycle starting at
\* (last_time, last_state).  duration = event.time - last_time, NaN when <= 0;
\* mean_slope = amplitude / duration when duration is a number.
cycle_row(event, last_time, last_state, last_order, tdiv) ==
    LET dnum == event.time - last_time
        amplitude == ramp_amplitude(event, last_state)
    IN  CycleSummary(last_time, event.time,
                     IF dnum <= 0 THEN NaN ELSE Rat(dnum, tdiv), amplitude,
                     IF dnum <= 0 THEN NaN ELSE Rat(amplitude * tdiv, dnum),
                     event.delta_s, event.theta, event.reset)

RECURSIVE summarize_from_initial(_, _, _, _, _, _, _)
summarize_from_initial(events, k, last_time, last_state, last_order, tdiv, summaries) ==
    IF k > Len(events) THEN summaries
    ELSE LET event == events[k]
         IN  summarize_from_initial(events, k + 1, event.time, last_state,
                                    last_order + event.delta_s, tdiv,
                                    Append(summaries,
                                           cycle_row(event, last_time, last_state, last_order, tdiv)))

RECURSIVE summarize_loop(_, _, _, _, _, _, _)
summarize_loop(events, k, last_time, last_state, last_order, tdiv, summaries) ==
    IF k > Len(events) THEN summaries
    ELSE LET event == events[k]
         IN  summarize_loop(events, k + 1, event.time, event.reset,
                            last_order + event.delta_s, tdiv,
                            Append(summaries,
                                   cycle_row(event, last_time, last_state, last_order, tdiv)))

\* summarize_cycles(frame, events, initial_state): the rows of the table
summarize_cycles(frame, events, initial_state) ==
    IF events = <<>> THEN <<>>
    ELSE summarize_loop(events, 1, frame.time[0], initial_state, 0, frame.time_div, <<>>)

\* -------------------------------------------------------- viability margin

RECURSIVE max_theta(_, _, _)
max_theta(thresholds, k, best) ==
    IF k > Len(thresholds) THEN best
    ELSE max_theta(thresholds, k + 1,
                   IF thresholds[k].theta > best THEN thresholds[k].theta ELSE best)

first_theta(thresholds) == thresholds[1].theta
\* max(th.theta for th in thresholds), thresholds not empty
top_theta(thresholds) == max_theta(thresholds, 2, thresholds[1].theta)

last_index(column) == Cardinality(DOMAIN column) - 1

\* compute_viability_margin(frame, thresholds): max() of no thetas raises
\* ValueError; relative_margin is NaN for a top threshold of 0.
compute_viability_margin(frame, thresholds) ==
    IF thresholds = <<>> THEN Raise("ValueError")
    ELSE LET top_threshold == top_theta(thresholds)
             current_state == frame.accumulator[last_index(frame.accumulator)]
             margin == top_threshold - current_state
         IN  Ok([current_state |-> current_state, top_threshold |-> top_threshold,
                 margin |-> margin,
                 relative_margin |-> IF top_threshold # 0 THEN Rat(margin, top_threshold)
                                     ELSE NaN])

\* ------------------------------------------------------------------ state

VARIABLES
    scenario,       \* the Scenario simulate_cycle is called with
    seed,           \* its seed argument, None or an integer
    rng,            \* the generator's state
    pc,             \* "simulate" | "summarize" | "margin" | "done" | "error"
    idx,            \* the loop index of simulate_cycle
    steps,          \* number of samples
    times, x, order, releases, driver_values,   \* the arrays, indexed from 0
    thresholds,     \* the sorted thresholds
    events,         \* the event list being built
    result,         \* None, or Some of what simulate_cycle returned
    cycles,         \* None, or Some of summarize_cycles' rows
    margin,         \* None, or Some of compute_viability_margin's dict
    error,          \* [kind, raised_by] of the exception that ended the run
    ens             \* simulate_ensemble's arguments and locals

vars == << scenario, seed, rng, pc, idx, steps, times, x, order, releases,
           driver_values, thresholds, events, result, cycles, margin, error, ens >>

\* no call of simulate_ensemble is under way
NoEnsemble == [size |-> 0, jitter |-> None, index |-> 0, results |-> <<>>, members |-> <<>>]

NoError == [kind |-> "none", raised_by |-> "none"]

\* simulate_cycle up to the loop: the generator, the grid, the arrays, x[0],
\* and the sorted thresholds.
Init ==
    /\ scenario \in Scenarios
    /\ seed \in { None } \cup { Some(s) : s \in Seeds }
    /\ rng \in default_rng(seed)
    /\ steps = Steps(scenario)
    /\ times = linspace(scenario)
    /\ x = [ zeros(Steps(scenario)) EXCEPT ![0] = scenario.initial_state ]
    /\ order = zeros(Steps(scenario))
    /\ releases = zeros(Steps(scenario))
    /\ driver_values = zeros(Steps(scenario))
    /\ events = <<>>
    /\ thresholds = sort_by_theta(scenario.thresholds)
    /\ idx = 1
    /\ pc = "simulate"
    /\ result = None
    /\ cycles = None
    /\ margin = None
    /\ error = NoError
    /\ ens = NoEnsemble

\* One pass of the loop body of simulate_cycle in which the derivative is
\* returned.
Step ==
    /\ pc = "simulate"
    /\ idx < steps
    /\ \E out \in driver_derivative(scenario.driver, times[idx - 1], TimeDiv(steps), x[idx - 1]) :
         /\ out.ok
         /\ LET noisy == scenario.driver.noise_std > 0
                derivative == IF noisy THEN out.value + normal(rng, scenario.driver.noise_std)
                              ELSE out.value
                state_next == x[idx - 1] + derivative * scenario.dt
                crossed == crossed_thresholds(thresholds, state_next)
                new_state == IF crossed = <<>> THEN state_next
                             ELSE selected_threshold(crossed).reset
            IN  /\ rng' = IF noisy THEN advance(rng) ELSE rng
                /\ driver_values' = [driver_values EXCEPT ![idx - 1] = derivative]
                /\ events' = events \o step_events(crossed, times[idx], state_next)
                /\ order' = [order EXCEPT ![idx] = next_order(order[idx - 1], crossed)]
                /\ releases' = [releases EXCEPT ![idx] = IF crossed = <<>> THEN 0 ELSE 1]
                /\ x' = [x EXCEPT ![idx] = floor_at_zero(new_state)]
                /\ idx' = idx + 1
    /\ UNCHANGED << ens, scenario, seed, pc, steps, times, thresholds, result, cycles, margin, error >>

\* The loop body when _driver_derivative raises: the exception leaves
\* simulate_cycle, which returns nothing.
StepRaises ==
    /\ pc = "simulate"
    /\ idx < steps
    /\ \E out \in driver_derivative(scenario.driver, times[idx - 1], TimeDiv(steps), x[idx - 1]) :
         /\ ~out.ok
         /\ error' = [kind |-> out.kind, raised_by |-> "_driver_derivative"]
    /\ pc' = "error"
    /\ UNCHANGED << ens, scenario, seed, rng, idx, steps, times, x, order, releases,
                    driver_values, thresholds, events, result, cycles, margin >>

\* After the loop: the last driver slot is forward-filled and the frame and the
\* events are returned.
Return ==
    /\ pc = "simulate"
    /\ idx >= steps
    /\ driver_values' = [driver_values EXCEPT
                           ![steps - 1] = IF steps > 1 THEN driver_values[steps - 2] ELSE 0]
    /\ result' = Some([frame |-> Frame(times, x, order, driver_values', releases, TimeDiv(steps)),
                       events |-> events])
    /\ pc' = "summarize"
    /\ UNCHANGED << ens, scenario, seed, rng, idx, steps, times, x, order, releases,
                    thresholds, events, cycles, margin, error >>

\* cli.main: cycles = summarize_cycles(frame, events, scenario.initial_state)
Summarize ==
    /\ pc = "summarize"
    /\ cycles' = Some(summarize_cycles(Val(result).frame, Val(result).events,
                                       scenario.initial_state))
    /\ pc' = "margin"
    /\ UNCHANGED << ens, scenario, seed, rng, idx, steps, times, x, order, releases,
                    driver_values, thresholds, events, result, margin, error >>

\* cli.main: margin = compute_viability_margin(frame, scenario.thresholds)
Margin ==
    /\ pc = "margin"
    /\ LET out == compute_viability_margin(Val(result).frame, scenario.thresholds)
       IN  /\ out.ok
           /\ margin' = Some(out.value)
    /\ pc' = "done"
    /\ UNCHANGED << ens, scenario, seed, rng, idx, steps, times, x, order, releases,
                    driver_values, thresholds, events, result, cycles, error >>

MarginRaises ==
    /\ pc = "margin"
    /\ LET out == compute_viability_margin(Val(result).frame, scenario.thresholds)
       IN  /\ ~out.ok
           /\ error' = [kind |-> out.kind, raised_by |-> "compute_viability_margin"]
    /\ pc' = "error"
    /\ UNCHANGED << ens, scenario, seed, rng, idx, steps, times, x, order, releases,
                    driver_values, thresholds, events, result, cycles, margin >>

Next == Step \/ StepRaises \/ Return \/ Summarize \/ Margin \/ MarginRaises

Spec == Init /\ [][Next]_vars

\* --------------------------------------------- simulate_cycle on its own

\* One call of simulate_cycle, up to its return or its exception, for the
\* scenarios with dt = 1 that do not start at 0.
InitCall ==
    /\ Init
    /\ scenario.dt = 1
    /\ scenario.initial_state # 0

NextCall == Step \/ StepRaises \/ Return

SpecCall == InitCall /\ [][NextCall]_vars

\* ------------------------------------------- summarizer on any event list

\* summarize_cycles takes any frame and any list of events, also lists no run
\* of simulate_cycle produces: times that repeat or go back, a first event at
\* the first sample's time.
EventInputs ==
    { Event(t, th, b) : t \in 0..2, th \in { ThresholdSpec(1, 0, 1), ThresholdSpec(2, 2, -1) },
                        b \in {1, 3} }
FrameInputs ==
    { Frame([ i \in 0..1 |-> t0 + i ], zeros(2), zeros(2), zeros(2), zeros(2), 1) : t0 \in {0, 1} }

\* A caller holding a frame and an event list, about to call
\* summarize_cycles(frame, events, scenario.initial_state).
InitSummarize ==
    /\ scenario \in { scn \in Scenarios :
                        /\ scn.dt = 1 /\ scn.duration = 1 /\ scn.thresholds = <<>>
                        /\ scn.driver = DriverSpec("linear", Some(1), None, None, 0) }
    /\ seed = None
    /\ rng = 0
    /\ steps = 2
    /\ \E frame \in FrameInputs :
         /\ times = frame.time
         /\ x = frame.accumulator
         /\ order = frame.order_parameter
         /\ releases = frame.release
         /\ driver_values = frame.driver
         /\ \E evs \in SeqsUpTo(EventInputs, MaxEvents) :
              /\ events = evs
              /\ result = Some([frame |-> frame, events |-> evs])
    /\ thresholds = <<>>
    /\ idx = 2
    /\ pc = "summarize"
    /\ cycles = None
    /\ margin = None
    /\ error = NoError
    /\ ens = NoEnsemble

NextSummarize == Summarize

SpecSummarize == InitSummarize /\ [][NextSummarize]_vars

\* -------------------------------------------------------------- ensemble

\* A jitter mapping: each key absent (None) or present with its scale.
JitterDict(rate, leak, theta, reset) == [rate |-> rate, leak |-> leak, theta |-> theta, reset |-> reset]
EmptyJitter == JitterDict(None, None, None, None)
\* jitter = jitter or {}
jitter_or_empty(jitter) == IF IsNone(jitter) THEN EmptyJitter ELSE Val(jitter)
jitter_get_default_one(jitter, key) == IF IsNone(jitter[key]) THEN 1 ELSE Val(jitter[key])
\* jitter.get(key, 0.0)
jitter_get(jitter, key) == IF IsNone(jitter[key]) THEN 0 ELSE Val(jitter[key])

\* rng.integers(0, 2**32 - 1): the draw
integers(r) == r

\* The loop over scenario.thresholds: theta and reset are each scaled by one
\* draw, delta_s is copied.  Gives the new thresholds and the generator state.
RECURSIVE perturb_thresholds(_, _, _, _, _)
perturb_thresholds(ths, k, r, jitter, done) ==
    IF k > Len(ths) THEN [thresholds |-> done, rng |-> r]
    ELSE LET theta == ths[k].theta * (1 + normal(r, jitter_get(jitter, "theta")))
             reset == ths[k].reset * (1 + normal(advance(r), jitter_get(jitter, "reset")))
         IN  perturb_thresholds(ths, k + 1, advance(advance(r)), jitter,
                                Append(done, ThresholdSpec(theta, reset, ths[k].delta_s)))

\* One pass of the loop body of simulate_ensemble up to the call of
\* simulate_cycle: the perturbed scenario, the sub-seed and the generator's
\* state after the draws.
perturb(scn, jitter, r) ==
    LET rate_scale == 1 + normal(r, jitter_get(jitter, "rate"))
        leak_scale == 1 + normal(advance(r), jitter_get(jitter, "leak"))
        pt == perturb_thresholds(scn.thresholds, 1, advance(advance(r)), jitter, <<>>)
        driver == scn.driver
        driver_copy ==
            DriverSpec(driver.type,
                       IF IsNone(driver.rate) THEN None ELSE Some(Val(driver.rate) * rate_scale),
                       IF IsNone(driver.leak) THEN None ELSE Some(Val(driver.leak) * leak_scale),
                       driver.segments, driver.noise_std)
    IN  [perturbed |-> [dt |-> scn.dt, duration |-> scn.duration,
                        initial_state |-> scn.initial_state, driver |-> driver_copy,
                        thresholds |-> pt.thresholds],
         sub_seed |-> Some(integers(pt.rng)),
         rng |-> advance(pt.rng)]

tag_one_based(frame, index) ==
    [time |-> frame.time, accumulator |-> frame.accumulator,
     order_parameter |-> frame.order_parameter, driver |-> frame.driver,
     release |-> frame.release, time_div |-> frame.time_div,
     member |-> [ i \in DOMAIN frame.time |-> index + 1 ]]
\* frame["member"] = index
tag_member(frame, index) ==
    [time |-> frame.time, accumulator |-> frame.accumulator,
     order_parameter |-> frame.order_parameter, driver |-> frame.driver,
     release |-> frame.release, time_div |-> frame.time_div,
     member |-> [ i \in DOMAIN frame.time |-> index ]]

EnsembleDrivers ==
    { DriverSpec("linear", Some(1), None, None, 0),
      DriverSpec("linear", Some(1), None, None, 1),
      DriverSpec("leaky", Some(2), Some(1), None, 0),
      DriverSpec("piecewise", None, None, Some(<< Segment(1, 2), Segment(2, -1) >>), 0),
      DriverSpec("linear", None, None, None, 0) }

EnsembleThresholdSpecs ==
    { ThresholdSpec(1, 0, 1), ThresholdSpec(2, 2, -1), ThresholdSpec(0, -1, 1) }

EnsembleScenarios ==
    { scn \in Scenarios :
        /\ scn.dt = 1
        /\ scn.initial_state # 0
        /\ scn.driver \in EnsembleDrivers
        /\ \A k \in DOMAIN scn.thresholds : scn.thresholds[k] \in EnsembleThresholdSpecs }

Jitters ==
    { None,
      Some(EmptyJitter),
      Some(JitterDict(None, None, Some(1), None)),
      Some(JitterDict(Some(1), None, None, Some(1))),
      Some(JitterDict(None, Some(1), Some(0), None)) }

\* simulate_ensemble(scenario, size, jitter, seed) up to its loop.
InitEnsemble ==
    /\ scenario \in EnsembleScenarios
    /\ seed \in { None } \cup { Some(s) : s \in Seeds }
    /\ rng \in default_rng(seed)
    /\ \E size \in 0..MaxSize, jitter \in Jitters :
         ens = [size |-> size, jitter |-> jitter, index |-> 0, results |-> <<>>,
                members |-> <<>>]
    /\ pc = "ensemble"
    /\ steps = 0
    /\ times = <<>>
    /\ x = <<>>
    /\ order = <<>>
    /\ releases = <<>>
    /\ driver_values = <<>>
    /\ events = <<>>
    /\ thresholds = <<>>
    /\ idx = 0
    /\ result = None
    /\ cycles = None
    /\ margin = None
    /\ error = NoError

\* One pass of the loop of simulate_ensemble in which simulate_cycle returns:
\* the frame is tagged and appended.  ens.members keeps the perturbed scenario
\* of each pass.
Member ==
    /\ pc = "ensemble"
    /\ ens.index < ens.size
    /\ LET p == perturb(scenario, jitter_or_empty(ens.jitter), rng)
       IN  /\ \E out \in simulate_cycle(p.perturbed, p.sub_seed) :
                /\ out.ok
                /\ ens' = [ens EXCEPT
                             !.results = Append(@, tag_member(out.value.frame, ens.index)),
                             !.members = Append(@, p.perturbed),
                             !.index = @ + 1]
           /\ rng' = p.rng
    /\ UNCHANGED << scenario, seed, pc, idx, steps, times, x, order, releases,
                    driver_values, thresholds, events, result, cycles, margin, error >>

\* The pass in which simulate_cycle raises: the exception leaves
\* simulate_ensemble, which returns nothing.
MemberRaises ==
    /\ pc = "ensemble"
    /\ ens.index < ens.size
    /\ LET p == perturb(scenario, jitter_or_empty(ens.jitter), rng)
       IN  /\ \E out \in simulate_cycle(p.perturbed, p.sub_seed) :
                /\ ~out.ok
                /\ error' = [kind |-> out.kind, raised_by |-> "_driver_derivative"]
           /\ rng' = p.rng
    /\ pc' = "error"
    /\ UNCHANGED << ens, scenario, seed, idx, steps, times, x, order, releases,
                    driver_values, thresholds, events, result, cycles, margin >>

\* return results
EnsembleReturn ==
    /\ pc = "ensemble"
    /\ ens.index >= ens.size
    /\ result' = Some(ens.results)
    /\ pc' = "returned"
    /\ UNCHANGED << ens, scenario, seed, rng, idx, steps, times, x, order, releases,
                    driver_values, thresholds, events, cycles, margin, error >>

NextEnsemble == Member \/ MemberRaises \/ EnsembleReturn

SpecEnsemble == InitEnsemble /\ [][NextEnsemble]_vars

\* ----------------------------------------------------------- properties

Range(seq) == { seq[k] : k \in DOMAIN seq }
Returned == result # None
RetFrame == Val(result).frame
RetEvents == Val(result).events
Samples == 0..(steps - 1)
ThresholdOf(event) == ThresholdSpec(event.theta, event.reset, event.delta_s)
\* the thresholds of the scenario, in any listing order, that `value` reaches
Reached(value) == { th \in Range(scenario.thresholds) : value >= th.theta }

RECURSIVE SumGains(_, _, _)
\* sum of delta_s over events[1..k] whose time is <= tnum
SumGains(evs, k, tnum) ==
    IF k = 0 THEN 0
    ELSE SumGains(evs, k - 1, tnum) + (IF evs[k].time <= tnum THEN evs[k].delta_s ELSE 0)

\* C1 as stated: every sample of the returned table, the first included, has
\* accumulator >= 0, whatever initial_state is.
C1_NonNegativeEverySample ==
    Returned => \A i \in Samples : RetFrame.accumulator[i] >= 0

\* C1 amended: every sample written by a step (i >= 1) has accumulator >= 0;
\* the first sample is initial_state itself, so it is >= 0 exactly when
\* initial_state is.
C1_NonNegativeAfterEveryStep ==
    Returned =>
        /\ \A i \in Samples \ {0} : RetFrame.accumulator[i] >= 0
        /\ RetFrame.accumulator[0] = scenario.initial_state

\* A run from a negative initial_state in which a threshold with a negative
\* reset fired and the sample was floored to 0.
C1_Witness ==
    /\ Returned
    /\ scenario.initial_state < 0
    /\ \E k \in DOMAIN RetEvents : \E i \in Samples \ {0} :
         /\ RetEvents[k].time = RetFrame.time[i]
         /\ RetEvents[k].reset < 0
         /\ RetFrame.accumulator[i] = 0

\* C2: in the returned table the number of release flags equals the number of
\* events, event times strictly increase in list order, every event's time is
\* the time of a sample flagged release, and every flagged sample has exactly
\* one event at its time.
C2_OneEventPerStep ==
    Returned =>
        /\ Cardinality({ i \in Samples : RetFrame.release[i] = 1 }) = Len(RetEvents)
        /\ \A k \in 1..(Len(RetEvents) - 1) : RetEvents[k].time < RetEvents[k + 1].time
        /\ \A k \in DOMAIN RetEvents :
             \E i \in Samples : RetFrame.release[i] = 1 /\ RetFrame.time[i] = RetEvents[k].time
        /\ \A i \in Samples :
             RetFrame.release[i] = 1 =>
                 Cardinality({ k \in DOMAIN RetEvents : RetEvents[k].time = RetFrame.time[i] }) = 1
        /\ \A i \in Samples : RetFrame.release[i] \in {0, 1}

\* A finished run with two events, one of them from a step that reached two
\* thresholds.
C2_Witness ==
    /\ Returned
    /\ Len(RetEvents) >= 2
    /\ \E k \in DOMAIN RetEvents : Cardinality(Reached(RetEvents[k].state_before)) >= 2

\* C3: every recorded event carries theta, reset and delta_s of a threshold of
\* the scenario that the proposed state reached, none of the reached
\* thresholds has a larger theta, and it is the only event of its step.
C3_HighestThetaFires ==
    Returned =>
        \A k \in DOMAIN RetEvents :
            LET event == RetEvents[k]
            IN  /\ ThresholdOf(event) \in Reached(event.state_before)
                /\ \A th \in Reached(event.state_before) : th.theta <= event.theta
                /\ \A j \in DOMAIN RetEvents : RetEvents[j].time = event.time => j = k

\* A step reached two thresholds of different theta, listed with the higher
\* one first.
C3_Witness ==
    /\ Returned
    /\ Len(scenario.thresholds) = 2
    /\ scenario.thresholds[1].theta > scenario.thresholds[2].theta
    /\ \E k \in DOMAIN RetEvents :
         /\ Reached(RetEvents[k].state_before) = Range(scenario.thresholds)
         /\ RetEvents[k].theta = scenario.thresholds[1].theta

\* C4: when every threshold has delta_s >= 0, order_parameter never decreases
\* from one sample to the next.
C4_MonotoneOrder ==
    (Returned /\ \A th \in Range(scenario.thresholds) : th.delta_s >= 0) =>
        \A i \in Samples \ {0} :
            RetFrame.order_parameter[i] >= RetFrame.order_parameter[i - 1]

\* Two events fired with non-negative gains and the order parameter rose.
C4_Witness ==
    /\ Returned
    /\ \A th \in Range(scenario.thresholds) : th.delta_s >= 0
    /\ Len(RetEvents) >= 2
    /\ RetFrame.order_parameter[steps - 1] >= 2

\* C5: order_parameter[i] is the sum of delta_s over the events with
\* time <= time[i]; at the last sample it is the sum over all events; and it
\* is unchanged on a step without release.
C5_OrderIsCumulativeSum ==
    Returned =>
        /\ \A i \in Samples :
             RetFrame.order_parameter[i] = SumGains(RetEvents, Len(RetEvents), RetFrame.time[i])
        /\ RetFrame.order_parameter[steps - 1]
             = SumGains(RetEvents, Len(RetEvents), RetFrame.time[steps - 1])
        /\ \A i \in Samples \ {0} :
             RetFrame.release[i] = 0 =>
                 RetFrame.order_parameter[i] = RetFrame.order_parameter[i - 1]

\* Two events of different gain, one negative, with a step without release
\* after the first.
C5_Witness ==
    /\ Returned
    /\ Len(RetEvents) >= 2
    /\ \E k \in DOMAIN RetEvents : RetEvents[k].delta_s < 0
    /\ \E k \in DOMAIN RetEvents : RetEvents[k].delta_s > 0
    /\ \E i \in Samples \ {0} :
         RetFrame.release[i] = 0 /\ RetFrame.order_parameter[i] # 0

Summarized == cycles # None
Rows == Val(cycles)
\* the drive is noise-free and every derivative the run used is > 0
MonotoneDrive ==
    /\ scenario.driver.noise_std = 0
    /\ \A i \in 0..(steps - 2) : RetFrame.driver[i] > 0

\* C6: under a noise-free drive whose derivative is > 0 at every step, every
\* row of the cycle summary has ramp_amplitude > 0.
C6_PositiveAmplitude ==
    (Summarized /\ MonotoneDrive) =>
        \A k \in DOMAIN Rows : Rows[k].ramp_amplitude > 0

\* A monotone run with two cycles, the second starting from a reset above the
\* theta that fires next.
C6_Witness ==
    /\ Summarized
    /\ MonotoneDrive
    /\ Len(Rows) >= 2
    /\ \E k \in 1..(Len(RetEvents) - 1) : RetEvents[k].reset > RetEvents[k + 1].theta

\* C7: summarize_cycles returns one row per event, in event order; row k has
\* end_time, theta, reset_level and release_gain of the k-th event.
C7_OneRowPerEvent ==
    Summarized =>
        /\ Len(Rows) = Len(RetEvents)
        /\ \A k \in DOMAIN RetEvents :
             /\ Rows[k].end_time = RetEvents[k].time
             /\ Rows[k].theta = RetEvents[k].theta
             /\ Rows[k].reset_level = RetEvents[k].reset
             /\ Rows[k].release_gain = RetEvents[k].delta_s

\* A summary of two events that differ in theta and in gain.
C7_Witness ==
    /\ Summarized
    /\ Len(RetEvents) >= 2
    /\ RetEvents[1].theta # RetEvents[2].theta
    /\ RetEvents[1].delta_s # RetEvents[2].delta_s
    /\ Rows[2].release_gain = RetEvents[2].delta_s

\* the table's last accumulator value is the largest theta of the scenario
EndsAtTop ==
    /\ scenario.thresholds # <<>>
    /\ \E th \in Range(scenario.thresholds) :
         /\ RetFrame.accumulator[steps - 1] = th.theta
         /\ \A other \in Range(scenario.thresholds) : other.theta <= th.theta

\* C8 as stated: for a table ending exactly at the top threshold, margin = 0
\* and relative_margin = 0.
C8_MarginZeroAtTop ==
    (margin # None /\ EndsAtTop) =>
        /\ Val(margin).margin = 0
        /\ RatIsZero(Val(margin).relative_margin)

\* C8 amended: for a table ending exactly at the top threshold, margin = 0;
\* relative_margin = 0 when the top threshold is not 0 and is NaN when it is 0.
C8_MarginZeroAtNonzeroTop ==
    (margin # None /\ EndsAtTop) =>
        /\ Val(margin).margin = 0
        /\ Val(margin).top_threshold = RetFrame.accumulator[steps - 1]
        /\ Val(margin).top_threshold # 0 => RatIsZero(Val(margin).relative_margin)
        /\ Val(margin).top_threshold = 0 => IsNaN(Val(margin).relative_margin)

\* A run of at least one step ending at a top threshold that is not 0 and is
\* not the first threshold listed.
C8_Witness ==
    /\ margin # None
    /\ EndsAtTop
    /\ steps > 1
    /\ Val(margin).top_threshold # 0
    /\ scenario.thresholds[1].theta # Val(margin).top_threshold

\* C9: whenever evaluating the derivative fails, it fails with the one
\* configuration-error kind (ValueError in this code), whichever of the
\* invalid drivers caused it.
C9_SingleErrorKind ==
    error.raised_by = "_driver_derivative" => error.kind = "ValueError"

\* C10: a scenario with no thresholds never gets a trajectory back from
\* simulate_cycle, and compute_viability_margin on no thresholds raises the
\* configuration-error kind.
C10_EmptyThresholdsRejected ==
    scenario.thresholds = <<>> =>
        /\ result = None
        /\ margin = None
        /\ error.raised_by = "compute_viability_margin" => error.kind = "ValueError"

\* the driver is one _driver_derivative rejects: an unsupported type, or a
\* parameter its type requires missing
InvalidDrive(driver) ==
    \/ driver.type = "leaky" /\ (IsNone(driver.rate) \/ IsNone(driver.leak))
    \/ driver.type = "linear" /\ IsNone(driver.rate)
    \/ driver.type = "piecewise" /\ (IsNone(driver.segments) \/ Val(driver.segments) = <<>>)
    \/ driver.type \notin {"leaky", "linear", "piecewise"}

\* C11: simulate_cycle never returns a result for a scenario whose driver is
\* invalid, whatever dt and duration are, duration = 0 included.
C11_InvalidDriveNeverReturns ==
    InvalidDrive(scenario.driver) => result = None

\* the sample index of an event: the step it was recorded in
StepOf(event) == CHOOSE i \in Samples \ {0} : RetFrame.time[i] = event.time

\* C12: every event is stamped with the time of a step i >= 1, its
\* state_before is accumulator[i-1] + driver[i-1] * dt and is >= its theta,
\* its state_after is its reset, and sample i has accumulator = max(reset, 0)
\* and release = 1.
C12_EventContents ==
    Returned =>
        \A k \in DOMAIN RetEvents :
            LET event == RetEvents[k]
            IN  /\ \E i \in Samples \ {0} : RetFrame.time[i] = event.time
                /\ event.state_before
                     = RetFrame.accumulator[StepOf(event) - 1]
                       + RetFrame.driver[StepOf(event) - 1] * scenario.dt
                /\ event.state_before >= event.theta
                /\ event.state_after = event.reset
                /\ RetFrame.accumulator[StepOf(event)]
                     = (IF event.reset > 0 THEN event.reset ELSE 0)
                /\ RetFrame.release[StepOf(event)] = 1

\* An event that overshot its theta under a noisy drive and reset below 0.
C12_Witness ==
    /\ Returned
    /\ scenario.driver.noise_std > 0
    /\ \E k \in DOMAIN RetEvents :
         /\ RetEvents[k].state_before > RetEvents[k].theta
         /\ RetEvents[k].reset < 0
         /\ RetEvents[k].state_after < 0

\* the least n with n * dt >= duration: ceil(duration / dt)
CeilOfRatio(duration, dt) ==
    CHOOSE n \in 0..duration : n * dt >= duration /\ \A m \in 0..(n - 1) : m * dt < duration

\* C16: the returned table has ceil(duration/dt) + 1 rows, starts at time 0,
\* ends at time duration, and its first row holds initial_state, order
\* parameter 0 and release 0, whatever initial_state is.
C16_TableSetup ==
    Returned =>
        LET rows == CeilOfRatio(scenario.duration, scenario.dt) + 1
        IN  /\ DOMAIN RetFrame.time = 0..(rows - 1)
            /\ DOMAIN RetFrame.accumulator = 0..(rows - 1)
            /\ DOMAIN RetFrame.order_parameter = 0..(rows - 1)
            /\ DOMAIN RetFrame.driver = 0..(rows - 1)
            /\ DOMAIN RetFrame.release = 0..(rows - 1)
            /\ RetFrame.time[0] = 0
            /\ RetFrame.time[rows - 1] = scenario.duration * RetFrame.time_div
            /\ RetFrame.accumulator[0] = scenario.initial_state
            /\ RetFrame.order_parameter[0] = 0
            /\ RetFrame.release[0] = 0

\* A table for a duration that is not a multiple of dt, from a negative
\* initial_state, with a release in it.
C16_Witness ==
    /\ Returned
    /\ scenario.duration % scenario.dt # 0
    /\ scenario.duration > scenario.dt
    /\ scenario.initial_state < 0
    /\ RetEvents # <<>>

\* C17: every interval time[i] - time[i-1] of the table equals dt, except
\* the final one, which may be shorter.
C17_GridSpacingIsDt ==
    Returned =>
        /\ \A i \in 1..(steps - 2) :
             RetFrame.time[i] - RetFrame.time[i - 1] = scenario.dt * RetFrame.time_div
        /\ steps > 1 =>
             RetFrame.time[steps - 1] - RetFrame.time[steps - 2]
               <= scenario.dt * RetFrame.time_div

\* C20: for duration > 0 the events have strictly increasing times, all after
\* the first sample, and every summary row has a duration that is a number
\* > 0, equal to end_time - start_time, and a mean_slope that is a number.
C20_NoDegenerateCycles ==
    (Summarized /\ scenario.duration > 0) =>
        /\ \A k \in DOMAIN RetEvents : RetEvents[k].time > RetFrame.time[0]
        /\ \A k \in 1..(Len(RetEvents) - 1) : RetEvents[k].time < RetEvents[k + 1].time
        /\ Len(Rows) = Len(RetEvents)
        /\ \A k \in DOMAIN Rows :
             /\ ~IsNaN(Rows[k].duration)
             /\ Rows[k].duration[1] > 0 /\ Rows[k].duration[2] > 0
             /\ Rows[k].duration = Rat(Rows[k].end_time - Rows[k].start_time, RetFrame.time_div)
             /\ ~IsNaN(Rows[k].mean_slope)

\* A summary of three cycles, the first ending at the first step.
C20_Witness ==
    /\ Summarized
    /\ scenario.duration > 0
    /\ Len(Rows) >= 3
    /\ RetEvents[1].time = RetFrame.time[1]

\* The stepwise run and the call as a whole agree: what the steps returned or
\* raised is an outcome of simulate_cycle(scenario, seed).
StepsAgreeWithCall ==
    /\ Returned => Ok(Val(result)) \in simulate_cycle(scenario, seed)
    /\ error.raised_by = "_driver_derivative" => Raise(error.kind) \in simulate_cycle(scenario, seed)

\* simulate_cycle has just returned to its caller
JustReturned == Returned /\ pc = "summarize"

\* C15: a run with a fixed seed, or of a noise-free scenario with any seed or
\* none, returns the one table and event list that every run of the same
\* scenario and seed returns.
C15_Determinism ==
    (JustReturned /\ (seed # None \/ scenario.driver.noise_std = 0)) =>
        \A out \in simulate_cycle(scenario, seed) : out.ok /\ out.value = Val(result)

\* A seeded run under a noisy drive in which the noise changed a derivative
\* and a threshold fired.
C15_Witness ==
    /\ JustReturned
    /\ seed # None
    /\ scenario.driver.type = "linear"
    /\ scenario.driver.noise_std > 0
    /\ \E i \in 0..(steps - 2) : RetFrame.driver[i] # Val(scenario.driver.rate)
    /\ RetEvents # <<>>

\* every listing order of the thresholds `ths`
ListingOrders(ths) ==
    { [ k \in 1..Len(ths) |-> ths[f[k]] ] : f \in Permutations(1..Len(ths)) }
\* thresholds that share a theta are the same threshold
TiesAreIdentical(ths) ==
    \A j, k \in DOMAIN ths : ths[j].theta = ths[k].theta => ths[j] = ths[k]

\* C19 as stated: for every listing order of the scenario's thresholds,
\* equal thetas with different reset or delta_s included, simulate_cycle
\* returns the same table and events.
C19_AnyListingOrder ==
    JustReturned =>
        \A ths \in ListingOrders(scenario.thresholds) :
            Ok(Val(result)) \in simulate_cycle([scenario EXCEPT !.thresholds = ths], seed)

\* C19 amended: the same, for scenarios in which thresholds sharing a theta do
\* not differ in reset or delta_s.
C19_ListingOrderOfDistinctThetas ==
    (JustReturned /\ TiesAreIdentical(scenario.thresholds)) =>
        \A ths \in ListingOrders(scenario.thresholds) :
            Ok(Val(result)) \in simulate_cycle([scenario EXCEPT !.thresholds = ths], seed)

\* Two thresholds of different theta listed with the higher first, both
\* reached in one step.
C19_Witness ==
    /\ JustReturned
    /\ Len(scenario.thresholds) = 2
    /\ scenario.thresholds[1].theta > scenario.thresholds[2].theta
    /\ \E k \in DOMAIN RetEvents :
         /\ Reached(RetEvents[k].state_before) = Range(scenario.thresholds)
         /\ RetEvents[k].reset = scenario.thresholds[1].reset
    /\ Len(RetEvents) >= 2

\* the start of cycle k: the first sample's time and initial_state for the
\* first event, the previous event's time and reset for a later one
CycleStartTime(k) == IF k = 1 THEN RetFrame.time[0] ELSE RetEvents[k - 1].time
CycleStartState(k) == IF k = 1 THEN scenario.initial_state ELSE RetEvents[k - 1].reset

\* C18: row 1 starts at the first sample's time with ramp_amplitude =
\* state_before - initial_state; row k > 1 starts at row k-1's end_time with
\* ramp_amplitude = state_before - the previous event's reset; duration is
\* end_time - start_time when that is > 0 and NaN otherwise; mean_slope is
\* ramp_amplitude / duration when duration is a number and NaN otherwise.
C18_CycleBoundaries ==
    Summarized =>
        /\ Len(Rows) = Len(RetEvents)
        /\ \A k \in DOMAIN Rows :
             LET row == Rows[k]
                 elapsed == row.end_time - row.start_time
             IN  /\ row.end_time = RetEvents[k].time
                 /\ row.start_time = CycleStartTime(k)
                 /\ k > 1 => row.start_time = Rows[k - 1].end_time
                 /\ row.ramp_amplitude = RetEvents[k].state_before - CycleStartState(k)
                 /\ elapsed > 0 =>
                      /\ ~IsNaN(row.duration) /\ ~IsNaN(row.mean_slope)
                      /\ row.duration[1] * RetFrame.time_div = elapsed * row.duration[2]
                      /\ row.mean_slope[1] * row.duration[1]
                           = row.ramp_amplitude * row.duration[2] * row.mean_slope[2]
                 /\ elapsed <= 0 => IsNaN(row.duration) /\ IsNaN(row.mean_slope)

\* A summary of two events: the first cycle has a positive duration, the
\* second ends no later than it starts and began from a reset other than
\* initial_state.
C18_Witness ==
    /\ Summarized
    /\ Len(Rows) = 2
    /\ ~IsNaN(Rows[1].duration)
    /\ IsNaN(Rows[2].duration)
    /\ RetEvents[1].reset # scenario.initial_state


\* ------------------------------------------------- ensemble properties

EnsembleReturned == pc = "returned" /\ ~IsNone(result)
\* the mapping the loop of simulate_ensemble reads
Jitter == jitter_or_empty(ens.jitter)
\* a tagged table without its member column
untagged(frame) ==
    [time |-> frame.time, accumulator |-> frame.accumulator,
     order_parameter |-> frame.order_parameter, driver |-> frame.driver,
     release |-> frame.release, time_div |-> frame.time_div]
\* what C13 says of the tables apart from the sign of the accumulator
EnsembleListing ==
    /\ EnsembleReturned => Len(Val(result)) = ens.size /\ Val(result) = ens.results
    /\ \A k \in DOMAIN ens.results :
         LET frame == ens.results[k]
         IN  /\ DOMAIN frame.member = DOMAIN frame.time
             /\ \A i \in DOMAIN frame.time :
                  /\ frame.member[i] = k - 1
                  /\ frame.release[i] \in {0, 1}

\* C13 as stated: a returned ensemble has exactly `size` tables, the k-th
\* tagged k in every row, with at most one release per step and an
\* accumulator that is never negative at any sample.
C13_EnsembleShape ==
    /\ EnsembleListing
    /\ \A k \in DOMAIN ens.results :
         \A i \in DOMAIN ens.results[k].time : ens.results[k].accumulator[i] >= 0

\* C13 amended: a returned ensemble has exactly `size` tables, the k-th
\* tagged k in every row, with at most one release per step; the accumulator
\* of every table starts at the base initial_state, whatever its sign, and is
\* never negative at any later sample.
C13_EnsembleShapeAfterFirstSample ==
    /\ EnsembleListing
    /\ \A k \in DOMAIN ens.results :
         LET frame == ens.results[k]
         IN  /\ frame.accumulator[0] = scenario.initial_state
             /\ \A i \in DOMAIN frame.time : i >= 1 => frame.accumulator[i] >= 0

C13_Witness ==
    /\ EnsembleReturned
    /\ ens.size = 2
    /\ Len(Val(result)) = 2
    /\ scenario.initial_state < 0
    /\ \E i \in DOMAIN Val(result)[2].time :
         /\ i >= 1
         /\ Val(result)[2].release[i] = 1
         /\ Val(result)[2].member[i] = 1

\* C14: every member's perturbed scenario keeps the base dt, duration,
\* initial_state, driver type, segments, noise_std and each threshold's
\* delta_s; rate, leak, theta and reset keep the base value when their key is
\* absent from the jitter mapping or jitter is None; and with no jitter and
\* noise_std = 0 the member's table without its tag is the table of
\* simulate_cycle on the base scenario.
C14_PerturbationFrame ==
    \A k \in DOMAIN ens.members :
      LET m == ens.members[k]
      IN  /\ m.dt = scenario.dt
          /\ m.duration = scenario.duration
          /\ m.initial_state = scenario.initial_state
          /\ m.driver.type = scenario.driver.type
          /\ m.driver.segments = scenario.driver.segments
          /\ m.driver.noise_std = scenario.driver.noise_std
          /\ Len(m.thresholds) = Len(scenario.thresholds)
          /\ \A j \in DOMAIN m.thresholds :
               /\ m.thresholds[j].delta_s = scenario.thresholds[j].delta_s
               /\ IsNone(Jitter.theta) => m.thresholds[j].theta = scenario.thresholds[j].theta
               /\ IsNone(Jitter.reset) => m.thresholds[j].reset = scenario.thresholds[j].reset
          /\ IsNone(Jitter.rate) => m.driver.rate = scenario.driver.rate
          /\ IsNone(Jitter.leak) => m.driver.leak = scenario.driver.leak
          /\ (Jitter = EmptyJitter /\ scenario.driver.noise_std = 0) =>
               \A sd \in { None } \cup { Some(v) : v \in Seeds } :
                 \A out \in simulate_cycle(scenario, sd) :
                   /\ out.ok
                   /\ untagged(ens.results[k]) = out.value.frame

\* a second member whose theta was perturbed while the rate, whose key is
\* absent, was kept, and whose table records a release
C14_Witness ==
    /\ EnsembleReturned
    /\ Len(ens.members) = 2
    /\ ~IsNone(Jitter.theta)
    /\ IsNone(Jitter.rate)
    /\ ~IsNone(scenario.driver.rate)
    /\ ens.members[2].driver.rate = scenario.driver.rate
    /\ \E j \in DOMAIN scenario.thresholds :
         ens.members[2].thresholds[j].theta # scenario.thresholds[j].theta
    /\ \E i \in DOMAIN ens.results[2].time : ens.results[2].release[i] = 1

\* a second member of an ensemble without jitter and without noise, whose
\* table records a release
C14_NoJitterReached ==
    /\ EnsembleReturned
    /\ Len(ens.members) = 2
    /\ Jitter = EmptyJitter
    /\ scenario.driver.noise_std = 0
    /\ \E i \in DOMAIN ens.results[2].time : ens.results[2].release[i] = 1

====
